---- MODULE Spec2Model ----
(***************************************************************************)
(* crossfitPal.py: a console fitness tracker over one SQLite file.         *)
(* The state is the database file (four tables and the AUTOINCREMENT       *)
(* counter of exercise_category), and the running process: where it is     *)
(* blocked on input(), the local variable of the loop it is in, the lines  *)
(* it read in its last step and the last message it printed.               *)
(* A step runs the program from one input() to the next one.               *)
(***************************************************************************)
EXTENDS Integers, Sequences, FiniteSets, TLC

VARIABLES
    tables,             \* TRUE once initialize() created the four tables
    exercise_category,  \* set of rows [id, name]
    category_seq,       \* sqlite_sequence of exercise_category (largest id given)
    workout,            \* sequence of rows [name, category_id, sets, reps]; id = position
    fitness_goal,       \* sequence of rows [description]; id = position
    goal_workout,       \* sequence of rows [goal_id, workout_id, completed]; id = position
    pc,                 \* the input() the process is blocked on, or how it ended
    local,              \* workout_name of create / goal_id of add_workouts
    closed,             \* Database.close() was called by this process
    stdin,              \* the lines the last step read
    out                 \* the last message the last step printed

vars == <<tables, exercise_category, category_seq, workout, fitness_goal,
          goal_workout, pc, local, closed, stdin, out>>

db == <<tables, exercise_category, category_seq, workout, fitness_goal, goal_workout>>

(* ---------------------------------------------------------------- bounds *)
\* rows inserted over all four tables, over the life of the database file
MaxInserts == 5

(* ---------------------------------------------------------------- inputs *)
CategoryNames == {"Squats", "Done"}
WorkoutNames == {"Leg Day", "Arms"}
Descriptions == {"Run 5k"}
SetsTexts == {"3", "abc"}
RepsTexts == {"10", "abc"}
GoalIdTexts == {"1", "2", "abc"}
Answers == {"yes", "Yes", "no"}

\* Python's None (get_category_id, get_workout_id); row ids start at 1
None == 0

\* str.lower() on the texts the program lowers
lower(s) ==
    CASE s = "Done" -> "done"
      [] s = "Squats" -> "squats"
      [] s = "Leg Day" -> "leg day"
      [] s = "Arms" -> "arms"
      [] s = "Yes" -> "yes"
      [] OTHER -> s

\* int(text) raises ValueError unless the text is a decimal literal
is_int(s) == s \in {"1", "2", "3", "10"}

int(s) ==
    CASE s = "1" -> 1
      [] s = "2" -> 2
      [] s = "3" -> 3
      [] s = "10" -> 10

Message(text, args) == [text |-> text, args |-> args]

NoMessage == Message("", <<>>)

Inserted == category_seq + Len(workout) + Len(fitness_goal) + Len(goal_workout)

Room == Inserted < MaxInserts

(* ------------------------------------------------------------- Database *)
\* CREATE TABLE without IF NOT EXISTS after a DROP: the table starts over
CreateTableAnew(rows, empty) == empty

\* CREATE TABLE IF NOT EXISTS: the rows of a table after the statement
CreateTableIfNotExists(rows, empty) == IF tables THEN rows ELSE empty

initialize ==
    /\ tables' = TRUE
    /\ exercise_category' = CreateTableIfNotExists(exercise_category, {})
    /\ category_seq' = CreateTableIfNotExists(category_seq, 0)
    /\ workout' = CreateTableIfNotExists(workout, <<>>)
    /\ fitness_goal' = CreateTableIfNotExists(fitness_goal, <<>>)
    /\ goal_workout' = CreateTableIfNotExists(goal_workout, <<>>)
    /\ out' = Message("Database initialized successfully!", <<>>)

\* an exception nothing catches: the traceback is printed and the process ends
\* without reaching db.close()
Raise(exception) ==
    /\ pc' = "crashed"
    /\ local' = None
    /\ out' = Message("Traceback", <<exception>>)
    /\ UNCHANGED <<db, closed>>

(* ------------------------------------------------------------- Category *)
\* the name column declared without UNIQUE
UniqueViolationNever(name) == FALSE

\* the UNIQUE constraint of exercise_category.name
UniqueViolation(name) == \E r \in exercise_category : r.name = name

get_category_id(name) ==
    IF \E r \in exercise_category : r.name = name
    THEN (CHOOSE r \in exercise_category : r.name = name).id
    ELSE None

\* DELETE FROM exercise_category with the WHERE clause lost
DeleteCategoryAll(name) == {}

\* DELETE FROM exercise_category WHERE name = ?
DeleteCategory(name) == {r \in exercise_category : r.name # name}

\* the lines of Category.view_all
Category_listing ==
    [id \in {r.id : r \in exercise_category} |->
        [name |-> (CHOOSE r \in exercise_category : r.id = id).name,
         workouts |-> SelectSeq(workout, LAMBDA w : w.category_id = id)]]

Category_add(name) ==
    /\ stdin' = <<"1", name>>
    /\ IF ~tables
       THEN Raise("OperationalError")
       ELSE /\ IF UniqueViolation(name)
               THEN /\ out' = Message("Category already exists.", <<>>)
                    /\ UNCHANGED <<exercise_category, category_seq>>
               ELSE /\ Room
                    /\ exercise_category' = exercise_category \cup
                           {[id |-> category_seq + 1, name |-> name]}
                    /\ category_seq' = category_seq + 1
                    /\ out' = Message("Exercise category added successfully!", <<>>)
            /\ UNCHANGED <<tables, workout, fitness_goal, goal_workout, pc, local, closed>>

Category_view_all ==
    /\ stdin' = <<"2">>
    /\ IF ~tables
       THEN Raise("OperationalError")
       ELSE /\ out' = Message("categories", Category_listing)
            /\ UNCHANGED <<db, pc, local, closed>>

Category_delete(name) ==
    /\ IF ~tables
       THEN /\ stdin' = <<"3">>
            /\ Raise("OperationalError")
       ELSE /\ stdin' = <<"3", name>>
            /\ exercise_category' = DeleteCategory(name)
            /\ out' = Message("Category deleted successfully!", <<>>)
            /\ UNCHANGED <<tables, category_seq, workout, fitness_goal, goal_workout,
                           pc, local, closed>>

(* -------------------------------------------------------------- Workout *)
\* the lookup taking the newest row of that name instead of the first
get_workout_id_last(name) ==
    IF \E i \in 1..Len(workout) : workout[i].name = name
    THEN CHOOSE i \in 1..Len(workout) :
            /\ workout[i].name = name
            /\ \A j \in 1..Len(workout) : workout[j].name = name => j <= i
    ELSE None

\* SELECT id FROM workout WHERE name = ?, fetchone(): the table is scanned in
\* rowid order, so the first row is the one with the least id
get_workout_id(name) ==
    IF \E i \in 1..Len(workout) : workout[i].name = name
    THEN CHOOSE i \in 1..Len(workout) :
            /\ workout[i].name = name
            /\ \A j \in 1..Len(workout) : workout[j].name = name => i <= j
    ELSE None

\* the INSERT with sets and reps bound in the wrong order
WorkoutRowSwapped(workout_name, category_id, sets, reps) ==
    [name |-> workout_name, category_id |-> category_id, sets |-> reps, reps |-> sets]

\* INSERT INTO workout (name, category_id, sets, reps) VALUES (?, ?, ?, ?)
WorkoutRow(workout_name, category_id, sets, reps) ==
    [name |-> workout_name, category_id |-> category_id, sets |-> sets, reps |-> reps]

Workout_listing == [i \in 1..Len(workout) |->
                       <<i, workout[i].name, workout[i].sets, workout[i].reps>>]

\* choice 4 and the workout name, up to the first category prompt
Workout_create(workout_name) ==
    /\ stdin' = <<"4", workout_name>>
    /\ IF ~tables
       THEN Raise("OperationalError")
       ELSE /\ pc' = "create"
            /\ local' = workout_name
            /\ out' = Message("categories", Category_listing)
            /\ UNCHANGED <<db, closed>>

\* one round of the loop of create: the category prompt answered 'done'
Workout_create_done(category_name) ==
    /\ pc = "create"
    /\ lower(category_name) = "done"
    /\ stdin' = <<category_name>>
    /\ pc' = "menu"
    /\ local' = None
    /\ out' = NoMessage
    /\ UNCHANGED <<db, closed>>

\* one round of the loop of create: a category name, then sets and reps
Workout_create_entry(category_name, sets, reps) ==
    /\ pc = "create"
    /\ lower(category_name) # "done"
    /\ IF get_category_id(category_name) = None
       THEN /\ stdin' = <<category_name>>
            /\ out' = Message("Category does not exist.", <<>>)
            /\ UNCHANGED <<db, pc, local, closed>>
       ELSE IF ~is_int(sets)
       THEN /\ stdin' = <<category_name, sets>>
            /\ Raise("ValueError")
       ELSE IF ~is_int(reps)
       THEN /\ stdin' = <<category_name, sets, reps>>
            /\ Raise("ValueError")
       ELSE /\ Room
            /\ stdin' = <<category_name, sets, reps>>
            /\ workout' = Append(workout,
                   WorkoutRow(local, get_category_id(category_name), int(sets), int(reps)))
            /\ out' = Message("Added", <<int(sets), int(reps), category_name, local>>)
            /\ UNCHANGED <<tables, exercise_category, category_seq, fitness_goal,
                           goal_workout, pc, local, closed>>

Workout_view_all ==
    /\ stdin' = <<"5">>
    /\ IF ~tables
       THEN Raise("OperationalError")
       ELSE /\ out' = Message("workouts", Workout_listing)
            /\ UNCHANGED <<db, pc, local, closed>>

Workout_view_progress ==
    /\ stdin' = <<"6">>
    /\ IF ~tables
       THEN Raise("OperationalError")
       ELSE /\ out' = Message("workouts completed", Workout_listing)
            /\ UNCHANGED <<db, pc, local, closed>>

(* ---------------------------------------------------------- FitnessGoal *)
\* the completed column declared DEFAULT 1
GoalWorkoutRowCompleted(goal_id, workout_id) ==
    [goal_id |-> goal_id, workout_id |-> workout_id, completed |-> TRUE]

\* INSERT INTO goal_workout (goal_id, workout_id) VALUES (?, ?): completed
\* takes the column's DEFAULT 0
GoalWorkoutRow(goal_id, workout_id) ==
    [goal_id |-> goal_id, workout_id |-> workout_id, completed |-> FALSE]

\* the UPDATE with the goal_id condition lost
UpdateCompletedAnyGoal(goal_id, workout_id) ==
    [i \in 1..Len(goal_workout) |->
        IF goal_workout[i].workout_id = workout_id
        THEN [goal_workout[i] EXCEPT !.completed = TRUE]
        ELSE goal_workout[i]]

\* UPDATE goal_workout SET completed = 1 WHERE goal_id = ? AND workout_id = ?
UpdateCompleted(goal_id, workout_id) ==
    [i \in 1..Len(goal_workout) |->
        IF goal_workout[i].goal_id = goal_id /\ goal_workout[i].workout_id = workout_id
        THEN [goal_workout[i] EXCEPT !.completed = TRUE]
        ELSE goal_workout[i]]

Status(completed) == IF completed THEN "Completed" ELSE "Not completed"

\* SELECT w.name, gw.completed FROM workout w JOIN goal_workout gw
\* ON w.id = gw.workout_id WHERE gw.goal_id = ?, one line per joined row
GoalLines(rows, goal_id) ==
    LET joined == SelectSeq(rows, LAMBDA gw :
                     gw.goal_id = goal_id /\ gw.workout_id \in 1..Len(workout))
    IN  [i \in 1..Len(joined) |->
            <<workout[joined[i].workout_id].name, Status(joined[i].completed)>>]

\* what view_goals prints: every goal, and under it its lines
view_goals ==
    [g \in 1..Len(fitness_goal) |->
        [id |-> g, description |-> fitness_goal[g].description,
         lines |-> GoalLines(goal_workout, g)]]

FitnessGoal_set(description) ==
    /\ stdin' = <<"7", description>>
    /\ IF ~tables
       THEN Raise("OperationalError")
       ELSE /\ Room
            /\ fitness_goal' = Append(fitness_goal, [description |-> description])
            /\ out' = Message("Fitness goal set successfully!", <<>>)
            /\ UNCHANGED <<tables, exercise_category, category_seq, workout,
                           goal_workout, pc, local, closed>>

\* choice 8 and the goal id, up to the first workout prompt
FitnessGoal_add_workouts(goal_id) ==
    IF ~tables
    THEN /\ stdin' = <<"8">>
         /\ Raise("OperationalError")
    ELSE /\ stdin' = <<"8", goal_id>>
         /\ IF ~is_int(goal_id)
            THEN Raise("ValueError")
            ELSE /\ pc' = "add_workouts"
                 /\ local' = int(goal_id)
                 /\ out' = Message("workouts", Workout_listing)
                 /\ UNCHANGED <<db, closed>>

FitnessGoal_add_workouts_done(workout_name) ==
    /\ pc = "add_workouts"
    /\ lower(workout_name) = "done"
    /\ stdin' = <<workout_name>>
    /\ pc' = "menu"
    /\ local' = None
    /\ out' = NoMessage
    /\ UNCHANGED <<db, closed>>

\* one round of the loop of add_workouts
FitnessGoal_add_workouts_entry(workout_name) ==
    /\ pc = "add_workouts"
    /\ lower(workout_name) # "done"
    /\ stdin' = <<workout_name>>
    /\ IF get_workout_id(workout_name) = None
       THEN /\ out' = Message("Workout does not exist.", <<>>)
            /\ UNCHANGED goal_workout
       ELSE /\ Room
            /\ goal_workout' = Append(goal_workout,
                   GoalWorkoutRow(local, get_workout_id(workout_name)))
            /\ out' = Message("Added workout", <<workout_name, local>>)
    /\ UNCHANGED <<tables, exercise_category, category_seq, workout, fitness_goal,
                   pc, local, closed>>

FitnessGoal_mark_workout_completed(goal_id, workout_name) ==
    IF ~tables
    THEN /\ stdin' = <<"9">>
         /\ Raise("OperationalError")
    ELSE IF ~is_int(goal_id)
    THEN /\ stdin' = <<"9", goal_id>>
         /\ Raise("ValueError")
    ELSE /\ stdin' = <<"9", goal_id, workout_name>>
         /\ IF get_workout_id(workout_name) = None
            THEN /\ out' = Message("Workout does not exist.", <<>>)
                 /\ UNCHANGED goal_workout
            ELSE /\ goal_workout' = UpdateCompleted(int(goal_id), get_workout_id(workout_name))
                 /\ out' = Message("Marked workout", <<workout_name, int(goal_id)>>)
         /\ UNCHANGED <<tables, exercise_category, category_seq, workout, fitness_goal,
                        pc, local, closed>>

FitnessGoal_view_progress ==
    /\ stdin' = <<"10">>
    /\ IF ~tables
       THEN Raise("OperationalError")
       ELSE /\ out' = Message("goals", view_goals)
            /\ UNCHANGED <<db, pc, local, closed>>

(* ----------------------------------------------------------------- Menu *)
Quit ==
    /\ stdin' = <<"11">>
    /\ pc' = "exited"
    /\ closed' = TRUE
    /\ out' = NoMessage
    /\ UNCHANGED <<db, local>>

InvalidChoice ==
    /\ stdin' = <<"0">>
    /\ out' = Message("Invalid choice. Please try again.", <<>>)
    /\ UNCHANGED <<db, pc, local, closed>>

\* one round of the loop of display: the choice read at the menu, dispatched
display ==
    \/ pc = "menu" /\ \E name \in CategoryNames : Category_add(name)
    \/ pc = "menu" /\ Category_view_all
    \/ pc = "menu" /\ \E name \in CategoryNames : Category_delete(name)
    \/ pc = "menu" /\ \E name \in WorkoutNames : Workout_create(name)
    \/ pc = "menu" /\ Workout_view_all
    \/ pc = "menu" /\ Workout_view_progress
    \/ pc = "menu" /\ \E description \in Descriptions : FitnessGoal_set(description)
    \/ pc = "menu" /\ \E goal_id \in GoalIdTexts : FitnessGoal_add_workouts(goal_id)
    \/ pc = "menu" /\ \E goal_id \in GoalIdTexts, name \in WorkoutNames :
                          FitnessGoal_mark_workout_completed(goal_id, name)
    \/ pc = "menu" /\ FitnessGoal_view_progress
    \/ pc = "menu" /\ Quit
    \/ pc = "menu" /\ InvalidChoice

(* ------------------------------------------------------------- __main__ *)
\* the answer to "Do you want to initialize the database? (yes/no)"
main(answer) ==
    /\ pc = "prompt"
    /\ stdin' = <<answer>>
    /\ pc' = "menu"
    /\ IF lower(answer) = "yes"
       THEN initialize
       ELSE /\ out' = NoMessage
            /\ UNCHANGED db
    /\ UNCHANGED <<local, closed>>

\* the program is run again on the same crossfit.db
Start ==
    /\ pc \in {"exited", "crashed"}
    /\ pc' = "prompt"
    /\ local' = None
    /\ closed' = FALSE
    /\ stdin' = <<>>
    /\ out' = NoMessage
    /\ UNCHANGED db

Init ==
    /\ tables = FALSE
    /\ exercise_category = {}
    /\ category_seq = 0
    /\ workout = <<>>
    /\ fitness_goal = <<>>
    /\ goal_workout = <<>>
    /\ pc = "prompt"
    /\ local = None
    /\ closed = FALSE
    /\ stdin = <<>>
    /\ out = NoMessage

Next ==
    \/ \E answer \in Answers : main(answer)
    \/ display
    \/ \E name \in CategoryNames \cup {"done"} : Workout_create_done(name)
    \/ \E name \in CategoryNames, sets \in SetsTexts, reps \in RepsTexts :
           Workout_create_entry(name, sets, reps)
    \/ \E name \in WorkoutNames \cup {"done"} : FitnessGoal_add_workouts_done(name)
    \/ \E name \in WorkoutNames : FitnessGoal_add_workouts_entry(name)
    \/ Start

Spec == Init /\ [][Next]_vars

(* --------------------------------------------------------------- claims *)
Range(seq) == {seq[i] : i \in 1..Len(seq)}

CategoryIds == {r.id : r \in exercise_category}

HasCategory(name) == \E r \in exercise_category : r.name = name

\* the step just taken was read at the menu and began with this choice
Chose(choice) == pc = "menu" /\ Len(stdin') >= 1 /\ stdin'[1] = choice

\* C1: no two exercise_category rows ever share a name, and Category.add with
\* a name that already exists prints "Category already exists.", inserts
\* nothing and leaves the number of category rows unchanged.
C1_UniqueCategoryNames ==
    [][ /\ \A r1, r2 \in exercise_category' : r1.name = r2.name => r1 = r2
        /\ (Chose("1") /\ Len(stdin') = 2 /\ HasCategory(stdin'[2]))
              => /\ out'.text = "Category already exists."
                 /\ exercise_category' = exercise_category
                 /\ Cardinality(exercise_category') = Cardinality(exercise_category)
                 /\ pc' = "menu"
      ]_vars

C1_Witness ==
    /\ stdin = <<"1", "Squats">>
    /\ out.text = "Category already exists."
    /\ Cardinality(exercise_category) = 2

\* C2: every row Workout.create inserts references a category that exists at
\* the insert, every row add_workouts inserts references a fitness_goal row
\* and a workout row that exist at the insert, and nothing is inserted when
\* the referenced row does not exist.
C2_InsertsReferenceExistingRows ==
    [][ /\ Len(workout') > Len(workout)
              => workout'[Len(workout')].category_id \in CategoryIds
        /\ Len(goal_workout') > Len(goal_workout)
              => /\ goal_workout'[Len(goal_workout')].goal_id \in 1..Len(fitness_goal)
                 /\ goal_workout'[Len(goal_workout')].workout_id \in 1..Len(workout)
      ]_vars

\* C3: no error is fatal: whatever is typed, the process never dies of an
\* exception, it goes back to a prompt.
C3_NoErrorIsFatal == pc # "crashed"

\* C4: however the process ended, Database.close was called before.
C4_ClosedOnEveryExit == pc \in {"exited", "crashed"} => closed

\* C5: a goal_workout row is created with completed = false, rows are never
\* removed or re-pointed, and a completed flag that is true stays true.
C5_CompletedMonotone ==
    [][ /\ Len(goal_workout') >= Len(goal_workout)
        /\ \A i \in 1..Len(goal_workout') :
              IF i <= Len(goal_workout)
              THEN /\ goal_workout'[i].goal_id = goal_workout[i].goal_id
                   /\ goal_workout'[i].workout_id = goal_workout[i].workout_id
                   /\ goal_workout[i].completed => goal_workout'[i].completed
              ELSE ~goal_workout'[i].completed
      ]_vars

C5_Witness ==
    /\ out.text = "Added workout"
    /\ Len(goal_workout) >= 2
    /\ goal_workout[1].completed
    /\ ~goal_workout[Len(goal_workout)].completed

\* the goal_workout rows of goal g whose workout row carries the name n
Attached(rows, g, n) ==
    {i \in 1..Len(rows) :
        /\ rows[i].goal_id = g
        /\ rows[i].workout_id \in 1..Len(workout)
        /\ workout[rows[i].workout_id].name = n}

\* C6: for an existing goal g and a name n that resolves, right after
\* add_workouts attaches n to g view_goals lists n under g as "Not
\* completed"; right after mark_workout_completed(g, n), whenever n is
\* attached to g, view_goals lists n under g as "Completed" and no longer as
\* "Not completed", whatever happened since the attach and however many
\* workout rows carry the name n.
C6_AttachThenMarkShown ==
    [][ /\ (pc = "add_workouts" /\ out'.text = "Added workout"
               /\ local \in 1..Len(fitness_goal))
              => <<stdin'[1], "Not completed">> \in Range((view_goals')[local].lines)
        /\ (Chose("9") /\ Len(stdin') = 3 /\ is_int(stdin'[2])
               /\ int(stdin'[2]) \in 1..Len(fitness_goal)
               /\ Attached(goal_workout, int(stdin'[2]), stdin'[3]) # {})
              => /\ <<stdin'[3], "Completed">>
                        \in Range((view_goals')[int(stdin'[2])].lines)
                 /\ <<stdin'[3], "Not completed">>
                        \notin Range((view_goals')[int(stdin'[2])].lines)
      ]_vars

C6_Witness ==
    /\ stdin = <<"9", "1", "Leg Day">>
    /\ out.text = "Marked workout"
    /\ Len(fitness_goal) >= 1
    /\ Cardinality({i \in 1..Len(workout) : workout[i].name = "Leg Day"}) >= 2
    /\ <<"Leg Day", "Completed">> \in Range(view_goals[1].lines)

\* C7: in the loop of Workout.create, an entry whose category name does not
\* resolve prints "Category does not exist.", inserts nothing and the loop
\* goes on; an entry (name, sets, reps) whose category name resolves, with
\* sets and reps numbers, appends exactly one workout row carrying the
\* workout name, the id of that category, the sets and the reps, and the
\* loop goes on.
C7_CreateEntries ==
    [][ (pc = "create" /\ Len(stdin') >= 1 /\ lower(stdin'[1]) # "done")
          => /\ ~HasCategory(stdin'[1])
                  => /\ out'.text = "Category does not exist."
                     /\ workout' = workout
                     /\ pc' = "create"
                     /\ local' = local
             /\ (HasCategory(stdin'[1]) /\ Len(stdin') = 3
                    /\ is_int(stdin'[2]) /\ is_int(stdin'[3]))
                  => /\ Len(workout') = Len(workout) + 1
                     /\ SubSeq(workout', 1, Len(workout)) = workout
                     /\ workout'[Len(workout')] =
                           [name |-> local,
                            category_id |->
                               (CHOOSE r \in exercise_category : r.name = stdin'[1]).id,
                            sets |-> int(stdin'[2]),
                            reps |-> int(stdin'[3])]
                     /\ out'.text = "Added"
                     /\ pc' = "create"
                     /\ local' = local
      ]_vars

C7_Witness ==
    /\ pc = "create"
    /\ stdin = <<"Squats", "3", "10">>
    /\ out.text = "Added"
    /\ Len(workout) >= 2
    /\ workout[Len(workout)].sets = 3
    /\ workout[Len(workout)].reps = 10
    /\ workout[Len(workout)].name = local

\* C8: Category.delete(name) removes the category row of that name and no
\* other one (none when no row has the name), and leaves every workout,
\* fitness_goal and goal_workout row as it was.
C8_DeleteFrame ==
    [][ (Chose("3") /\ Len(stdin') = 2)
          => /\ exercise_category' = {r \in exercise_category : r.name # stdin'[2]}
             /\ ~HasCategory(stdin'[2]) => exercise_category' = exercise_category
             /\ Cardinality(exercise_category') >= Cardinality(exercise_category) - 1
             /\ UNCHANGED <<workout, fitness_goal, goal_workout>>
      ]_vars

C8_Witness ==
    /\ stdin = <<"3", "Squats">>
    /\ out.text = "Category deleted successfully!"
    /\ exercise_category # {}
    /\ \E i \in 1..Len(workout) : workout[i].category_id \notin CategoryIds

\* C9: mark_workout_completed(goalId, workoutName) changes nothing but the
\* completed flag of the goal_workout rows of (goalId, id of workoutName);
\* nothing at all changes when the name does not resolve or no row has
\* that pair.
C9_MarkFrame ==
    [][ Chose("9")
          => /\ UNCHANGED <<tables, exercise_category, category_seq, workout, fitness_goal>>
             /\ Len(goal_workout') = Len(goal_workout)
             /\ \A i \in 1..Len(goal_workout) :
                   \/ goal_workout'[i] = goal_workout[i]
                   \/ /\ Len(stdin') = 3
                      /\ is_int(stdin'[2])
                      /\ get_workout_id(stdin'[3]) # None
                      /\ goal_workout[i].goal_id = int(stdin'[2])
                      /\ goal_workout[i].workout_id = get_workout_id(stdin'[3])
                      /\ goal_workout'[i] = [goal_workout[i] EXCEPT !.completed = TRUE]
      ]_vars

C9_Witness ==
    /\ stdin = <<"9", "1", "Leg Day">>
    /\ out.text = "Marked workout"
    /\ \E i, j \in 1..Len(goal_workout) :
          /\ goal_workout[i].goal_id = 1
          /\ goal_workout[i].completed
          /\ goal_workout[j].goal_id = 2
          /\ goal_workout[j].workout_id = goal_workout[i].workout_id
          /\ ~goal_workout[j].completed

\* C10: ending the process, starting it again and answering yes or no to the
\* initialize prompt leaves every row of the four tables, and so what
\* view_goals shows, unchanged.
C10_RestartKeepsData ==
    [][ (pc \in {"exited", "crashed", "prompt"})
          => /\ UNCHANGED <<exercise_category, workout, fitness_goal, goal_workout>>
             /\ view_goals' = view_goals
             /\ (tables => tables')
      ]_vars

C10_Witness ==
    /\ pc = "menu"
    /\ stdin = <<"yes">>
    /\ Len(fitness_goal) >= 1
    /\ \E i \in 1..Len(goal_workout) :
          goal_workout[i].goal_id = 1 /\ goal_workout[i].completed

====
